---- MODULE Spec2Model ----
(***************************************************************************)
(* Model of the pod racing bot of src/src/main.rs: the vector algebra, the *)
(* pod record and its update, the navigation law (target acquisition,      *)
(* proportional navigation, early-turn override, thrust, collision guard), *)
(* the opponent prioritizer and main's read / decide / print loop.         *)
(*                                                                         *)
(* Numbers.  The program computes in f32.  The model computes in fixed     *)
(* point over the integers:                                                *)
(*   - positions, velocities, distances, thrust: whole game units;         *)
(*   - dimensionless fractions (unit vectors, cosines, rotation rate,      *)
(*     tanh, flight time in turns): thousandths, i.e. scaled by UNIT;      *)
(*   - an inner or outer product is the plain integer product, so its      *)
(*     scale is the product of its operands' scales (only the sign or a    *)
(*     quotient of two such products is ever used);                        *)
(*   - the one non-finite f32 value the program can produce, NaN (from     *)
(*     0.0 / 0.0), is a reserved value that every operation propagates     *)
(*     and every comparison treats as unordered (false).                   *)
(* Quotients truncate toward zero, square roots truncate downward.         *)
(***************************************************************************)
EXTENDS Integers, Sequences, FiniteSets, TLC

\* f32 fixed-point resolution of fractions: 1.0 is UNIT.
UNIT == 1000

\* f32 NaN, as produced by 0.0 / 0.0.
NaN == -2147483647

MAX_ACCELERAION == 100
POD_RADIUS == 400
OPPONENTS == 2
FUTURE_TIME == 4 * UNIT
DRAG_COEF == (85 * UNIT) \div 100

(***************************************************************************)
(* f32 arithmetic                                                          *)
(***************************************************************************)
IsNaN(a) == a = NaN

Abs(a) == IF a < 0 THEN -a ELSE a

\* a / b on integers, truncated toward zero (b # 0)
Quot(a, b) ==
    LET q == Abs(a) \div Abs(b)
    IN  IF (a < 0) # (b < 0) THEN -q ELSE q

FAdd(a, b) == IF IsNaN(a) \/ IsNaN(b) THEN NaN ELSE a + b

FSub(a, b) == IF IsNaN(a) \/ IsNaN(b) THEN NaN ELSE a - b

FNeg(a) == IF IsNaN(a) THEN NaN ELSE -a

\* plain product: the result's scale is the product of the operands' scales
FMul(a, b) == IF IsNaN(a) \/ IsNaN(b) THEN NaN ELSE a * b

\* product with one operand a fraction (scaled by UNIT); result in the
\* other operand's scale
MulU(a, u) == IF IsNaN(a) \/ IsNaN(u) THEN NaN ELSE Quot(a * u, UNIT)

\* quotient a / b as a fraction (a and b in the same scale), or a divided by
\* a game-unit number when a is to become a fraction.  0 / 0 is NaN.  A
\* non-zero numerator over zero (an infinity in f32) does not occur in the
\* program: its only unguarded divisor, range . range, is zero only when the
\* numerator is zero too.
DivU(a, b) ==
    IF IsNaN(a) \/ IsNaN(b) \/ b = 0 THEN NaN ELSE Quot(a * UNIT, b)

\* quotient of two numbers where the result keeps a's scale
FDiv(a, b) == IF IsNaN(a) \/ IsNaN(b) \/ b = 0 THEN NaN ELSE Quot(a, b)

\* comparisons: unordered (false) when an operand is NaN
FLt(a, b) == ~IsNaN(a) /\ ~IsNaN(b) /\ a < b

FLe(a, b) == ~IsNaN(a) /\ ~IsNaN(b) /\ a <= b

FGt(a, b) == ~IsNaN(a) /\ ~IsNaN(b) /\ a > b

\* f32::max returns the other operand when one is NaN
FMax(a, b) == IF IsNaN(a) THEN b ELSE IF IsNaN(b) THEN a ELSE IF a < b THEN b ELSE a

RECURSIVE SqrtSearch(_, _, _)
SqrtSearch(n, lo, hi) ==
    IF lo >= hi THEN lo
    ELSE LET mid == (lo + hi + 1) \div 2
         IN  IF mid * mid <= n THEN SqrtSearch(n, mid, hi)
             ELSE SqrtSearch(n, lo, mid - 1)

\* f32::sqrt: NaN for NaN and for negative numbers
FSqrt(a) ==
    IF IsNaN(a) \/ a < 0 THEN NaN
    ELSE SqrtSearch(a, 0, IF a < 46340 THEN a ELSE 46340)

\* f32::powi; one is 1.0 in the scale of x
RECURSIVE Powi(_, _, _)
Powi(x, n, one) ==
    IF IsNaN(x) THEN NaN
    ELSE IF n = 0 THEN one
    ELSE Quot(x * Powi(x, n - 1, one), one)

\* tanh on fractions, by linear interpolation between tabulated values;
\* odd, monotone, 1.0 from 5.0 on (f32 tanh(16.0) is exactly 1.0)
TanhKnots ==
    << <<0, 0>>, <<250, 245>>, <<500, 462>>, <<750, 635>>, <<1000, 762>>,
       <<1500, 905>>, <<2000, 964>>, <<3000, 995>>, <<4000, 999>>,
       <<5000, 1000>> >>

RECURSIVE TanhInterp(_, _)
TanhInterp(z, i) ==
    IF i >= Len(TanhKnots) THEN TanhKnots[Len(TanhKnots)][2]
    ELSE LET a == TanhKnots[i]
             b == TanhKnots[i + 1]
         IN  IF z <= b[1]
             THEN a[2] + ((z - a[1]) * (b[2] - a[2])) \div (b[1] - a[1])
             ELSE TanhInterp(z, i + 1)

Tanh(z) ==
    IF IsNaN(z) THEN NaN
    ELSE IF z < 0 THEN -TanhInterp(-z, 1)
    ELSE TanhInterp(z, 1)

\* cos and sin of an angle given in degrees, as fractions
CosDeg(angle) ==
    LET a == angle % 360
    IN  CASE a = 0 -> 1000 [] a = 45 -> 707 [] a = 90 -> 0 [] a = 135 -> -707
          [] a = 180 -> -1000 [] a = 225 -> -707 [] a = 270 -> 0
          [] a = 315 -> 707

SinDeg(angle) == CosDeg(angle + 270)

(***************************************************************************)
(* Vec2                                                                    *)
(***************************************************************************)
Vec2(x, y) == [x |-> x, y |-> y]

VecIsNaN(v) == IsNaN(v.x) \/ IsNaN(v.y)

\* rotate_deg -> rotate, the angle kept in degrees
RotateDeg(v, angle) ==
    LET cosine == CosDeg(angle)
        sine == SinDeg(angle)
    IN  Vec2(FSub(MulU(v.x, cosine), MulU(v.y, sine)),
             FAdd(MulU(v.x, sine), MulU(v.y, cosine)))

OuterProduct(a, b) == FSub(FMul(a.x, b.y), FMul(a.y, b.x))

InnerProduct(a, b) == FAdd(FMul(a.x, b.x), FMul(a.y, b.y))

Norm(v) == FSqrt(InnerProduct(v, v))

Add(a, b) == Vec2(FAdd(a.x, b.x), FAdd(a.y, b.y))

Sub(a, b) == Vec2(FSub(a.x, b.x), FSub(a.y, b.y))

Neg(a) == Vec2(FNeg(a.x), FNeg(a.y))

\* Mul<f32>: one of v and rhs is a fraction
Mul(v, rhs) == Vec2(MulU(v.x, rhs), MulU(v.y, rhs))

\* Div<f32>: the quotient is a fraction (used by normalized only)
Div(v, rhs) == Vec2(DivU(v.x, rhs), DivU(v.y, rhs))

\* the unit vector of v as fractions; the zero vector for the zero vector
Normalized(v) == Div(v, IF Norm(v) = 0 THEN 1 ELSE Norm(v))

(***************************************************************************)
(* Pod                                                                     *)
(***************************************************************************)
\* largest value of the u8 field lap
U8_MAX == 255

Accelerate(accel) == [kind |-> "Accelerate", accel |-> accel]

Boost == [kind |-> "Boost", accel |-> 0]

Shield == [kind |-> "Shield", accel |-> 0]

PodNew(x, y, vx, vy, orient_angle, checkpoint_idx, role) ==
    [pos |-> Vec2(x, y),
     vel |-> Vec2(vx, vy),
     accel |-> MAX_ACCELERAION,
     orientation |-> RotateDeg(Vec2(UNIT, 0), orient_angle),
     checkpoint_idx |-> checkpoint_idx,
     lap |-> 0,
     role |-> role]

PodAttacker == PodNew(0, 0, 0, 0, 0, 0, "Attacker")

PodRacer == PodNew(0, 0, 0, 0, 0, 0, "Racer")

\* self.lap + 1 does not fit the u8: the addition panics in a build with
\* overflow checks and wraps to 0 in a build without
LapOverflows(self, checkpoint_idx) ==
    checkpoint_idx # self.checkpoint_idx /\ self.lap + 1 > U8_MAX

\* an update that also resets accel
UpdateResetsAccel(self, x, y, vx, vy, orient_angle, checkpoint_idx) ==
    [self EXCEPT
        !.lap = IF checkpoint_idx # self.checkpoint_idx
                THEN (self.lap + 1) % (U8_MAX + 1)
                ELSE self.lap,
        !.pos = Vec2(x, y),
        !.vel = Vec2(vx, vy),
        !.orientation = RotateDeg(Vec2(UNIT, 0), orient_angle),
        !.checkpoint_idx = checkpoint_idx,
        !.accel = MAX_ACCELERAION]

\* Pod::update, the addition as the build without overflow checks does it
Update(self, x, y, vx, vy, orient_angle, checkpoint_idx) ==
    [self EXCEPT
        !.lap = IF checkpoint_idx # self.checkpoint_idx
                THEN (self.lap + 1) % (U8_MAX + 1)
                ELSE self.lap,
        !.pos = Vec2(x, y),
        !.vel = Vec2(vx, vy),
        !.orientation = RotateDeg(Vec2(UNIT, 0), orient_angle),
        !.checkpoint_idx = checkpoint_idx]

\* one input line of six numbers, parsed
Snap(x, y, vx, vy, orient_angle, checkpoint_idx) ==
    [x |-> x, y |-> y, vx |-> vx, vy |-> vy,
     orient_angle |-> orient_angle, checkpoint_idx |-> checkpoint_idx]

\* update_pod: the pod updated with the line read
UpdatePod(pod, s) ==
    Update(pod, s.x, s.y, s.vx, s.vy, s.orient_angle, s.checkpoint_idx)

(***************************************************************************)
(* RaceParameters, prioritize_opponent                                     *)
(***************************************************************************)
RaceParametersNew(checkpoints, opponents, laps) ==
    [checkpoints |-> checkpoints, opponents |-> opponents, laps |-> laps]

\* checkpoints[i], the Vec indexed from 0
At(checkpoints, i) == checkpoints[i + 1]

ValidIdx(checkpoints) == 0 .. (Len(checkpoints) - 1)

\* a next index without the modulo
NextIdxNoWrap(idx, checkpoints) == idx + 1

\* (idx + 1) % parameters.checkpoints.len()
NextIdx(idx, checkpoints) == (idx + 1) % Len(checkpoints)

SetMax(S) == CHOOSE m \in S : \A n \in S : n <= m

\* max_lap
MaxLap(parameters) ==
    SetMax({parameters.opponents[i].lap : i \in DOMAIN parameters.opponents})

LeadersIdx(opponents, max_lap) ==
    {opponents[i].checkpoint_idx :
        i \in {j \in DOMAIN opponents : opponents[j].lap = max_lap}}

\* max_checkpoint
MaxCheckpoint(parameters) ==
    SetMax(LeadersIdx(parameters.opponents, MaxLap(parameters)))

\* the opponents that pass the filter of the final iterator chain, in order
Candidates(opponents, max_lap, max_checkpoint) ==
    SelectSeq(opponents,
              LAMBDA pod : pod.lap = max_lap /\ pod.checkpoint_idx = max_checkpoint)

\* Iterator::min_by with the comparison of the closure: the first of the
\* opponents nearest to target
RECURSIVE MinBy(_, _, _, _)
MinBy(pods, i, best, target) ==
    IF i > Len(pods) THEN best
    ELSE IF FLt(Norm(Sub(pods[i].pos, target)), Norm(Sub(best.pos, target)))
         THEN MinBy(pods, i + 1, pods[i], target)
         ELSE MinBy(pods, i + 1, best, target)

\* a selection that takes the first candidate, whatever its distance
NearestFirst(pods, target) == pods[1]

\* the comparison closure (and with it the checkpoint) is only used when
\* there are two candidates or more
Nearest(pods, target) ==
    IF Len(pods) = 1 THEN pods[1] ELSE MinBy(pods, 2, pods[1], target)

PrioritizeOpponent(parameters) ==
    Nearest(Candidates(parameters.opponents, MaxLap(parameters),
                       MaxCheckpoint(parameters)),
            At(parameters.checkpoints, MaxCheckpoint(parameters)))

(***************************************************************************)
(* Pod::navigate                                                           *)
(***************************************************************************)
\* current_cp + (next_cp - current_cp).normalized() * POD_RADIUS
BiasedCheckpoint(current_cp, next_cp) ==
    Add(current_cp, Mul(Normalized(Sub(next_cp, current_cp)), POD_RADIUS))

\* Role::Racer arm of the target match
RacerTarget(self, parameters) ==
    [nav_target |->
        BiasedCheckpoint(At(parameters.checkpoints, self.checkpoint_idx),
                         At(parameters.checkpoints,
                            NextIdx(self.checkpoint_idx, parameters.checkpoints))),
     rel_vel |-> Neg(self.vel)]

\* the opponent lies within about 37 degrees of the attacker's velocity
Aligned(self, pod) ==
    FGt(FDiv(InnerProduct(Normalized(Sub(pod.pos, self.pos)),
                          Normalized(self.vel)), UNIT),
        (8 * UNIT) \div 10)

\* the middle of the leg that starts at cp and runs along cp_diff
MidLeg(cp, cp_diff) ==
    Add(cp, Mul(Normalized(cp_diff), FDiv(Norm(cp_diff), 2)))

\* the opponent one turn from now, a pod radius nearer to its checkpoint
Intercept(pod, cp_range) ==
    Add(Add(pod.pos, pod.vel), Mul(Normalized(cp_range), POD_RADIUS))

\* Role::Attacker arm of the target match, pod the prioritized opponent
AttackerTargetOf(self, pod, cps) ==
    [nav_target |->
        IF Aligned(self, pod)
        THEN MidLeg(At(cps, pod.checkpoint_idx),
                    Sub(At(cps, NextIdx(pod.checkpoint_idx, cps)),
                        At(cps, pod.checkpoint_idx)))
        ELSE Intercept(pod, Sub(At(cps, pod.checkpoint_idx), pod.pos)),
     rel_vel |-> Sub(pod.vel, self.vel)]

AttackerTarget(self, parameters) ==
    AttackerTargetOf(self, PrioritizeOpponent(parameters), parameters.checkpoints)

Target(self, parameters) ==
    IF self.role = "Racer" THEN RacerTarget(self, parameters)
    ELSE AttackerTarget(self, parameters)

\* range
Range(self, parameters) == Sub(Target(self, parameters).nav_target, self.pos)

\* rotation_vec
RotationVec(range, rel_vel) ==
    DivU(OuterProduct(range, rel_vel), InnerProduct(range, range))

\* acc_norm
AccNorm(rel_vel, rotation_vec) ==
    Vec2(MulU(rel_vel.y, rotation_vec), MulU(FNeg(rel_vel.x), rotation_vec))

\* steer_vec as first computed: the lead point
LeadPoint(self, range, acc_norm) ==
    Add(self.pos,
        IF FLt(Norm(acc_norm), MAX_ACCELERAION)
        THEN Add(Mul(Normalized(range),
                     FSqrt(FSub(Powi(MAX_ACCELERAION, 2, 1),
                                InnerProduct(acc_norm, acc_norm)))),
                 acc_norm)
        ELSE Mul(Normalized(acc_norm), MAX_ACCELERAION))

\* the lead point for a target and a relative velocity
LeadTo(self, range, rel_vel) ==
    LeadPoint(self, range, AccNorm(rel_vel, RotationVec(range, rel_vel)))

\* Pod::flight_time, in thousandths of a turn
FlightTime(self, distance) ==
    LET accel == FMax(self.accel, 1)
    IN  FAdd(FSub(FDiv(DivU(FMul(distance, UNIT - DRAG_COEF), DRAG_COEF), accel),
                  DivU(Norm(self.vel), accel)),
             DivU(DRAG_COEF, UNIT - DRAG_COEF))

\* an override that both roles take
SteerVecBothRoles(self, parameters, lead, range) ==
    IF FLt(FlightTime(self, Norm(range)), FUTURE_TIME)
    THEN At(parameters.checkpoints,
            NextIdx(self.checkpoint_idx, parameters.checkpoints))
    ELSE lead

\* an override that aims at the current checkpoint
SteerVecCurrentCp(self, parameters, lead, range) ==
    IF self.role = "Racer" /\ FLt(FlightTime(self, Norm(range)), FUTURE_TIME)
    THEN At(parameters.checkpoints, self.checkpoint_idx)
    ELSE lead

\* the early-turn override of the Racer arm of the accel match
SteerVec(self, parameters, lead, range) ==
    IF self.role = "Racer" /\ FLt(FlightTime(self, Norm(range)), FUTURE_TIME)
    THEN At(parameters.checkpoints,
            NextIdx(self.checkpoint_idx, parameters.checkpoints))
    ELSE lead

\* a thrust expression without the tanh
ThrustNoTanh(self, steer_vec) ==
    MulU(FMul(Powi(FDiv(InnerProduct(self.orientation,
                                     Normalized(Sub(steer_vec, self.pos))),
                        UNIT),
                   4, UNIT),
              16),
         MAX_ACCELERAION)

\* the thrust expression, the same in both arms of the accel match
Thrust(self, steer_vec) ==
    MulU(Tanh(FMul(Powi(FDiv(InnerProduct(self.orientation,
                                          Normalized(Sub(steer_vec, self.pos))),
                             UNIT),
                        4, UNIT),
                   16)),
         MAX_ACCELERAION)

\* a collision guard that wants the opponent strictly nearer than 2.2 radii
CollidesStrict(self, parameters) ==
    \E i \in DOMAIN parameters.opponents :
        LET pod == parameters.opponents[i]
            range == Sub(Add(pod.pos, pod.vel), Add(self.pos, self.vel))
        IN  /\ FGt(InnerProduct(self.orientation, range), 0)
            /\ FLt(Norm(range), MulU(POD_RADIUS, (22 * UNIT) \div 10))

\* the collision guard: some opponent is ahead and within 2.2 pod radii
\* one turn from now
Collides(self, parameters) ==
    \E i \in DOMAIN parameters.opponents :
        LET pod == parameters.opponents[i]
            range == Sub(Add(pod.pos, pod.vel), Add(self.pos, self.vel))
        IN  /\ FGt(InnerProduct(self.orientation, range), 0)
            /\ FLe(Norm(range), MulU(POD_RADIUS, (22 * UNIT) \div 10))

NavAction(self, parameters, accel) ==
    IF Collides(self, parameters) THEN Shield ELSE Accelerate(accel)

\* the checkpoint indices the Attacker arm reads, c the prioritized
\* opponent's index
AttackerIndices(self, parameters, c) ==
    IF c \notin ValidIdx(parameters.checkpoints) THEN {c}
    ELSE IF Aligned(self, PrioritizeOpponent(parameters))
         THEN {c, NextIdx(c, parameters.checkpoints)}
         ELSE {c}

\* the checkpoint indices the call reads (an index outside the Vec panics)
NavIndices(self, parameters) ==
    IF self.role = "Racer"
    THEN {self.checkpoint_idx,
          NextIdx(self.checkpoint_idx, parameters.checkpoints)}
    ELSE AttackerIndices(self, parameters, MaxCheckpoint(parameters))

\* the end of navigate: self.accel = accel, the action, the pair returned
NavResult(self, parameters, steer_vec, accel) ==
    [pod |-> [self EXCEPT !.accel = accel],
     steer_vec |-> steer_vec,
     action |-> NavAction(self, parameters, accel)]

\* navigate from the (possibly overridden) steer point on
NavSteer(self, parameters, steer_vec) ==
    NavResult(self, parameters, steer_vec, Thrust(self, steer_vec))

\* navigate from range and rel_vel on
NavAlong(self, parameters, range, rel_vel) ==
    NavSteer(self, parameters,
             SteerVec(self, parameters, LeadTo(self, range, rel_vel), range))

\* navigate from the target match on
NavTo(self, parameters, t) ==
    NavAlong(self, parameters, Sub(t.nav_target, self.pos), t.rel_vel)

Navigate(self, parameters) == NavTo(self, parameters, Target(self, parameters))

(***************************************************************************)
(* main                                                                    *)
(***************************************************************************)
VARIABLES
    pc,             \* where main stands
    parameters,     \* RaceParameters: checkpoints, opponents, laps
    racer,          \* the racing pod
    attacker,       \* the attacking pod
    racer_line,     \* the racer's (steer point, action) of this turn
    attacker_line,  \* the attacker's (steer point, action) of this turn
    emitted,        \* number of command pairs printed so far
    reads,          \* checkpoint indices read by the last navigate call
    changes,        \* number of updates of racer whose index differed
    twin            \* a second run of the program, for comparing two runs

vars == <<pc, parameters, racer, attacker, racer_line, attacker_line,
          emitted, reads, changes, twin>>

\* number of turns of the game loop explored
MaxTurns == 2

NoLine == [steer_vec |-> Vec2(0, 0), action |-> [kind |-> "None", accel |-> 0]]

Line(steer_vec, action) == [steer_vec |-> steer_vec, action |-> action]

\* the tracks read at startup
Tracks ==
    { <<Vec2(1000, 0)>>,
      <<Vec2(0, 0), Vec2(1000, 0)>>,
      <<Vec2(0, 0), Vec2(1000, 0), Vec2(500, 1000)>> }

\* the input lines the referee may send for the racer and for the attacker,
\* and the pairs of lines it may send for the opponents
RacerInputs ==
    { Snap(0, 0, 0, 0, 0, 0),
      Snap(0, 0, 100, 0, 90, 0),
      Snap(400, 0, 0, 0, 0, 0),
      Snap(0, 0, 0, 300, 0, 1),
      Snap(1000, 0, 0, 0, 180, 0) }

AttackerInputs ==
    { Snap(0, 0, 100, 0, 0, 0),
      Snap(480, 0, 0, 0, 90, 0) }

OpponentInputs ==
    { <<Snap(880, 0, 0, 0, 0, 0), Snap(0, 880, 0, 0, 0, 1)>>,
      <<Snap(1500, 0, 100, 0, 0, 1), Snap(880, 0, 0, 0, 0, 0)>>,
      <<Snap(880, 0, 0, 0, 0, 0), Snap(881, 0, 0, 0, 0, 0)>>,
      <<Snap(881, 0, 0, 0, 0, 0), Snap(880, 0, 0, 0, 0, 0)>>,
      <<Snap(881, 0, 0, 0, 0, 0), Snap(0, 880, 0, 0, 0, 1)>> }

\* the referee sends checkpoint indices of the track only
OnTrack(S, checkpoints) == {s \in S : s.checkpoint_idx \in ValidIdx(checkpoints)}

OpponentsOnTrack(checkpoints) ==
    {ss \in OpponentInputs :
        \A i \in 1 .. OPPONENTS : ss[i].checkpoint_idx \in ValidIdx(checkpoints)}

Init ==
    /\ pc = "init_racer"
    /\ \E cps \in Tracks : parameters = RaceParametersNew(cps, <<>>, 3)
    /\ racer = PodRacer
    /\ attacker = PodAttacker
    /\ racer_line = NoLine
    /\ attacker_line = NoLine
    /\ emitted = 0
    /\ reads = {}
    /\ changes = 0
    /\ twin = <<>>

\* let mut racer = Pod::racer(); update_pod(&mut racer);
InitRacer ==
    /\ pc = "init_racer"
    /\ \E s \in OnTrack(RacerInputs, parameters.checkpoints) :
          racer' = UpdatePod(PodRacer, s)
    /\ pc' = "init_attacker"
    /\ UNCHANGED <<parameters, attacker, racer_line, attacker_line, emitted,
                   reads, changes, twin>>

\* let mut attacker = Pod::attacker(); update_pod(&mut attacker);
InitAttacker ==
    /\ pc = "init_attacker"
    /\ \E s \in OnTrack(AttackerInputs, parameters.checkpoints) :
          attacker' = UpdatePod(PodAttacker, s)
    /\ pc' = "init_opponents"
    /\ UNCHANGED <<parameters, racer, racer_line, attacker_line, emitted,
                   reads, changes, twin>>

\* the opponents, each Pod::racer() updated with its line
InitOpponents ==
    /\ pc = "init_opponents"
    /\ \E ss \in OpponentsOnTrack(parameters.checkpoints) :
          parameters' = RaceParametersNew(
              parameters.checkpoints,
              [i \in 1 .. OPPONENTS |-> UpdatePod(PodRacer, ss[i])],
              parameters.laps)
    /\ pc' = "first_output"
    /\ UNCHANGED <<racer, attacker, racer_line, attacker_line, emitted,
                   reads, changes, twin>>

\* an opening without Boost
FirstLinesAccelerate(pod, params) ==
    [racer |-> Line(At(params.checkpoints, pod.checkpoint_idx),
                    Accelerate(100)),
     attacker |-> Line(At(params.checkpoints, pod.checkpoint_idx),
                       Accelerate(100))]

\* the two lines printed before the loop
FirstLines(pod, params) ==
    [racer |-> Line(At(params.checkpoints, pod.checkpoint_idx), Boost),
     attacker |-> Line(At(params.checkpoints, pod.checkpoint_idx),
                       Accelerate(100))]

FirstOutput ==
    /\ pc = "first_output"
    /\ racer_line' = FirstLines(racer, parameters).racer
    /\ attacker_line' = FirstLines(racer, parameters).attacker
    /\ emitted' = 1
    /\ pc' = "update_racer"
    /\ UNCHANGED <<parameters, racer, attacker, reads, changes, twin>>

\* where main goes after an update: on, or into a panic when the lap
\* addition overflows in a build with overflow checks
AfterUpdate(overflows, next) ==
    IF overflows THEN {"panicked", next} ELSE {next}

\* loop: update_pod(&mut racer); the previous turn's lines are gone
UpdateRacer ==
    /\ pc = "update_racer"
    /\ emitted <= MaxTurns
    /\ \E s \in OnTrack(RacerInputs, parameters.checkpoints) :
          /\ pc' \in AfterUpdate(LapOverflows(racer, s.checkpoint_idx),
                                 "update_attacker")
          /\ racer' = IF pc' = "panicked" THEN racer ELSE UpdatePod(racer, s)
    /\ racer_line' = NoLine
    /\ attacker_line' = NoLine
    /\ UNCHANGED <<parameters, attacker, emitted, reads, changes, twin>>

\* update_pod(&mut attacker);
UpdateAttacker ==
    /\ pc = "update_attacker"
    /\ \E s \in OnTrack(AttackerInputs, parameters.checkpoints) :
          /\ pc' \in AfterUpdate(LapOverflows(attacker, s.checkpoint_idx),
                                 "update_opponents")
          /\ attacker' = IF pc' = "panicked" THEN attacker
                         ELSE UpdatePod(attacker, s)
    /\ UNCHANGED <<parameters, racer, racer_line, attacker_line, emitted,
                   reads, changes, twin>>

\* parameters.opponents.iter_mut().for_each(|opponent| update_pod(opponent));
UpdateOpponents ==
    /\ pc = "update_opponents"
    /\ \E ss \in OpponentsOnTrack(parameters.checkpoints) :
          /\ pc' \in AfterUpdate(
                \E i \in 1 .. OPPONENTS :
                    LapOverflows(parameters.opponents[i], ss[i].checkpoint_idx),
                "navigate_racer")
          /\ parameters' =
                IF pc' = "panicked" THEN parameters
                ELSE [parameters EXCEPT !.opponents =
                        [i \in 1 .. OPPONENTS |->
                            UpdatePod(parameters.opponents[i], ss[i])]]
    /\ UNCHANGED <<racer, attacker, racer_line, attacker_line, emitted,
                   reads, changes, twin>>

\* what main does with the result r of racer.navigate, idx the indices read
RacerNavigated(r, idx) ==
    /\ reads' = idx
    /\ IF idx \subseteq ValidIdx(parameters.checkpoints)
       THEN /\ racer' = r.pod
            /\ racer_line' = Line(r.steer_vec, r.action)
            /\ pc' = "navigate_attacker"
       ELSE /\ pc' = "panicked"
            /\ UNCHANGED <<racer, racer_line>>

\* let (racer_steer_vec, racer_action) = racer.navigate(&parameters);
NavigateRacer ==
    /\ pc = "navigate_racer"
    /\ RacerNavigated(Navigate(racer, parameters), NavIndices(racer, parameters))
    /\ UNCHANGED <<parameters, attacker, attacker_line, emitted, changes, twin>>

\* what main does with the result r of attacker.navigate, idx the indices
\* read: the turn's two lines are printed
AttackerNavigated(r, idx) ==
    /\ reads' = idx
    /\ IF idx \subseteq ValidIdx(parameters.checkpoints)
       THEN /\ attacker' = r.pod
            /\ attacker_line' = Line(r.steer_vec, r.action)
            /\ emitted' = emitted + 1
            /\ pc' = "update_racer"
       ELSE /\ pc' = "panicked"
            /\ UNCHANGED <<attacker, attacker_line, emitted>>

\* let (attacker_steer_vec, attacker_action) = attacker.navigate(&parameters);
\* and the two println! of the turn
NavigateAttacker ==
    /\ pc = "navigate_attacker"
    /\ AttackerNavigated(Navigate(attacker, parameters),
                         NavIndices(attacker, parameters))
    /\ UNCHANGED <<parameters, racer, racer_line, changes, twin>>

Next ==
    \/ InitRacer
    \/ InitAttacker
    \/ InitOpponents
    \/ FirstOutput
    \/ UpdateRacer
    \/ UpdateAttacker
    \/ UpdateOpponents
    \/ NavigateRacer
    \/ NavigateAttacker

Spec == Init /\ [][Next]_vars

(***************************************************************************)
(* Pod::update alone: one pod fed a long sequence of input lines           *)
(***************************************************************************)
\* number of index changes fed to the pod
MaxChanges == 257

LapInputs == { Snap(0, 0, 0, 0, 0, 0), Snap(0, 0, 0, 0, 0, 1) }

InitLap ==
    /\ pc = "lap_update"
    /\ parameters = RaceParametersNew(<<Vec2(0, 0), Vec2(1000, 0)>>, <<>>, 3)
    /\ racer = PodRacer
    /\ attacker = PodAttacker
    /\ racer_line = NoLine
    /\ attacker_line = NoLine
    /\ emitted = 0
    /\ reads = {}
    /\ changes = 0
    /\ twin = <<>>

\* update_pod(&mut racer), counting the lines whose index differs from the
\* stored one
LapUpdate ==
    /\ pc = "lap_update"
    /\ changes < MaxChanges
    /\ \E s \in LapInputs :
          /\ changes' = IF s.checkpoint_idx # racer.checkpoint_idx
                        THEN changes + 1 ELSE changes
          /\ pc' \in AfterUpdate(LapOverflows(racer, s.checkpoint_idx),
                                 "lap_update")
          /\ racer' = IF pc' = "panicked" THEN racer ELSE UpdatePod(racer, s)
    /\ UNCHANGED <<parameters, attacker, racer_line, attacker_line, emitted,
                   reads, twin>>

NextLap == LapUpdate

SpecLap == InitLap /\ [][NextLap]_vars

(***************************************************************************)
(* Two runs of the program side by side                                    *)
(***************************************************************************)
\* number of turns of the game loop both runs take
MaxTwinTurns == 2

TwinTrack == <<Vec2(0, 0), Vec2(1000, 0)>>

\* what the referee may send in one turn: the racer's line, the attacker's
\* line and the opponents' lines
TurnInput(r, a, o) == [racer |-> r, attacker |-> a, opponents |-> o]

TwinInputs ==
    { TurnInput(Snap(0, 0, 100, 0, 0, 0), Snap(0, 0, 100, 0, 0, 0),
                <<Snap(880, 0, 0, 0, 0, 0), Snap(0, 800, 0, 0, 0, 0)>>),
      TurnInput(Snap(0, 0, 100, 0, 90, 0), Snap(0, 0, 100, 0, 0, 0),
                <<Snap(880, 0, 0, 0, 0, 0), Snap(0, 800, 0, 0, 0, 0)>>),
      TurnInput(Snap(0, 0, 100, 0, 0, 0), Snap(0, 0, 100, 0, 90, 1),
                <<Snap(880, 0, 0, 0, 0, 0), Snap(0, 800, 0, 0, 0, 0)>>),
      TurnInput(Snap(0, 0, 100, 0, 0, 0), Snap(0, 0, 100, 0, 0, 0),
                <<Snap(880, 0, 0, 0, 0, 1), Snap(0, 800, 0, 0, 0, 0)>>) }

\* one run's variables; accel_in keeps the accel each pod held when its
\* navigate call of the turn began
RunState(r, a, params, rl, al, ain) ==
    [racer |-> r, attacker |-> a, parameters |-> params,
     racer_line |-> rl, attacker_line |-> al, accel_in |-> ain]

\* main up to the loop: the pods read, the first two lines printed
RunStartWith(r, a, params) ==
    RunState(r, a, params, FirstLines(r, params).racer,
             FirstLines(r, params).attacker,
             [racer |-> r.accel, attacker |-> a.accel])

RunStart(cps, in) ==
    RunStartWith(UpdatePod(PodRacer, in.racer),
                 UpdatePod(PodAttacker, in.attacker),
                 RaceParametersNew(
                     cps,
                     [i \in 1 .. OPPONENTS |-> UpdatePod(PodRacer, in.opponents[i])],
                     3))

\* the end of a turn: both navigate results in hand
RunTurnEnd(r, a, params, nr, na) ==
    RunState(nr.pod, na.pod, params,
             Line(nr.steer_vec, nr.action), Line(na.steer_vec, na.action),
             [racer |-> r.accel, attacker |-> a.accel])

\* one turn of the loop from the updated pods on
RunTurnWith(r, a, params) ==
    RunTurnEnd(r, a, params, Navigate(r, params), Navigate(a, params))

\* one turn of the loop
RunTurn(run, in) ==
    RunTurnWith(UpdatePod(run.racer, in.racer),
                UpdatePod(run.attacker, in.attacker),
                [run.parameters EXCEPT !.opponents =
                    [i \in 1 .. OPPONENTS |->
                        UpdatePod(run.parameters.opponents[i], in.opponents[i])]])

InitTwin ==
    /\ pc = "twin_start"
    /\ parameters = RaceParametersNew(TwinTrack, <<>>, 3)
    /\ racer = PodRacer
    /\ attacker = PodAttacker
    /\ racer_line = NoLine
    /\ attacker_line = NoLine
    /\ emitted = 0
    /\ reads = {}
    /\ changes = 0
    /\ twin = <<>>

\* both runs start, each with its own input
TwinStart ==
    /\ pc = "twin_start"
    /\ \E in1 \in TwinInputs, in2 \in TwinInputs :
          twin' = <<RunStart(TwinTrack, in1), RunStart(TwinTrack, in2)>>
    /\ emitted' = 1
    /\ pc' = "twin_turn"
    /\ UNCHANGED <<parameters, racer, attacker, racer_line, attacker_line,
                   reads, changes>>

\* both runs take a turn, each with its own input
TwinTurn ==
    /\ pc = "twin_turn"
    /\ emitted <= MaxTwinTurns
    /\ \E in1 \in TwinInputs :
          \E run1 \in {RunTurn(twin[1], in1)} :
              \E in2 \in TwinInputs :
                  twin' = <<run1, RunTurn(twin[2], in2)>>
    /\ emitted' = emitted + 1
    /\ UNCHANGED <<pc, parameters, racer, attacker, racer_line, attacker_line,
                   reads, changes>>

NextTwin ==
    \/ TwinStart
    \/ TwinTurn

SpecTwin == InitTwin /\ [][NextTwin]_vars

(***************************************************************************)
(* Properties                                                              *)
(***************************************************************************)
Cps == parameters.checkpoints

Zero == Vec2(0, 0)

\* the racer's navigate call of this turn has returned, and nothing it read
\* has changed since
RacerDone == pc = "navigate_attacker"

\* the attacker's navigate call of this turn has returned and the turn's
\* lines are printed, and nothing it read has changed since
AttackerDone == pc = "update_racer" /\ emitted >= 2

\* C1: after any sequence of updates of a pod, lap equals the number of
\* updates whose checkpoint index differed from the index stored just
\* before it.
C1_LapCountsChanges == racer.lap = changes

\* as far as the u8 reaches, the count is right: up to 255 changes
LapCountsChangesUpTo255 == changes <= U8_MAX => racer.lap = changes

\* the closing vector of the collision guard for one opponent
Closing(self, pod) == Sub(Add(pod.pos, pod.vel), Add(self.pos, self.vel))

\* some opponent's predicted relative position is ahead and within 880
Threat(self) ==
    \E i \in DOMAIN parameters.opponents :
        /\ InnerProduct(self.orientation, Closing(self, parameters.opponents[i])) > 0
        /\ Norm(Closing(self, parameters.opponents[i])) <= 880

ShieldIffThreat(self, line) ==
    /\ line.action.kind = "Shield" <=> Threat(self)
    /\ ~Threat(self) => line.action = Accelerate(self.accel)

\* C2: navigate returns Shield exactly when some opponent's predicted
\* relative position has a positive inner product with the orientation and
\* a norm of at most 880; otherwise it returns the thrust it computed.
C2_ShieldIffThreat ==
    /\ RacerDone => ShieldIffThreat(racer, racer_line)
    /\ AttackerDone => ShieldIffThreat(attacker, attacker_line)
    /\ NavAction(racer, [parameters EXCEPT !.opponents = <<>>], racer.accel)
          = Accelerate(racer.accel)

\* C2 witness: the racer shields for an opponent exactly 880 ahead, every
\* other opponent being abeam or behind (inner product <= 0) or farther
C2_WitnessBoundary ==
    /\ RacerDone
    /\ racer_line.action.kind = "Shield"
    /\ \E i \in DOMAIN parameters.opponents :
          /\ Norm(Closing(racer, parameters.opponents[i])) = 880
          /\ InnerProduct(racer.orientation,
                          Closing(racer, parameters.opponents[i])) > 0
    /\ \A i \in DOMAIN parameters.opponents :
          \/ Norm(Closing(racer, parameters.opponents[i])) >= 880
          \/ InnerProduct(racer.orientation,
                          Closing(racer, parameters.opponents[i])) <= 0

Opps == parameters.opponents

DistToCp(pod, idx) == Norm(Sub(pod.pos, At(Cps, idx)))

C4_BoostOnlyFirst ==
    /\ (pc = "update_racer" /\ emitted >= 1)
          => (racer_line.action.kind = "Boost" <=> emitted = 1)
    /\ (pc = "update_racer" /\ emitted = 1)
          => /\ racer_line.action = Boost
             /\ racer_line.steer_vec = At(Cps, racer.checkpoint_idx)
    /\ RacerDone => racer_line.action.kind \in {"Accelerate", "Shield"}
    /\ attacker_line.action.kind # "Boost"

\* C4 witness: a later racer command has been printed, at a thrust of 100
C4_WitnessLaterCommand ==
    /\ pc = "update_racer"
    /\ emitted = 3
    /\ racer_line.action = Accelerate(MAX_ACCELERAION)

\* the pod's call met a target that coincides with its position
ZeroRange(self) == Range(self, parameters) = Zero

WellDefined(self, line) ==
    /\ ~VecIsNaN(line.steer_vec)
    /\ ~IsNaN(self.accel)
    /\ ~IsNaN(line.action.accel)

\* C5: when the navigation target coincides with the pod's position the
\* rotation rate is taken to be zero, so the steer point and the thrust
\* that navigate returns are numbers.
C5_ZeroRangeIsGuarded ==
    /\ (RacerDone /\ ZeroRange(racer))
          => /\ RotationVec(Zero, Neg(racer.vel)) = 0
             /\ WellDefined(racer, racer_line)
    /\ (AttackerDone /\ ZeroRange(attacker))
          => WellDefined(attacker, attacker_line)

\* the two runs hold the same track and were sent the same lines this turn
SamePod(p, q) ==
    /\ p.pos = q.pos
    /\ p.vel = q.vel
    /\ p.orientation = q.orientation
    /\ p.checkpoint_idx = q.checkpoint_idx

SameSnapshot ==
    /\ twin # <<>>
    /\ twin[1].parameters.checkpoints = twin[2].parameters.checkpoints
    /\ SamePod(twin[1].racer, twin[2].racer)
    /\ SamePod(twin[1].attacker, twin[2].attacker)
    /\ \A i \in 1 .. OPPONENTS :
          SamePod(twin[1].parameters.opponents[i], twin[2].parameters.opponents[i])

SameLines ==
    /\ twin[1].racer_line = twin[2].racer_line
    /\ twin[1].attacker_line = twin[2].attacker_line

\* what of the earlier turns navigate still reads: the accel the racer
\* stored and the laps the opponents have counted
SameCarriedState ==
    /\ twin[1].accel_in.racer = twin[2].accel_in.racer
    /\ \A i \in 1 .. OPPONENTS :
          twin[1].parameters.opponents[i].lap = twin[2].parameters.opponents[i].lap

\* C6 as stated: two runs that reach a turn with the same snapshot and the
\* same track print the same steer point and action for both pods,
\* whatever differed in earlier turns.
C6_SnapshotAloneDecides == SameSnapshot => SameLines

\* C6: two runs that reach a turn with the same snapshot, the same track,
\* the same accel stored in the racer and the same opponent lap counts
\* print the same steer point and action for both pods, whatever else
\* differed in earlier turns (the pods' own laps, the attacker's stored
\* accel, earlier snapshots).
C6_SnapshotAndCarriedStateDecide ==
    (SameSnapshot /\ SameCarriedState) => SameLines

\* C6 witness: the runs agree on snapshot, racer accel and opponent laps in
\* a turn of the loop, and differ in the attacker's stored accel and in the
\* attacker's lap
C6_WitnessOtherHistoryDiffers ==
    /\ emitted >= 2
    /\ SameSnapshot
    /\ SameCarriedState
    /\ twin[1].accel_in.attacker # twin[2].accel_in.attacker
    /\ twin[1].attacker.lap # twin[2].attacker.lap

\* C7: for a navigate call whose target does not coincide with the pod,
\* the thrust stored in accel and carried by the Accelerate action lies in
\* [0, 100].
InThrustRange(self, line) ==
    /\ self.accel \in 0 .. MAX_ACCELERAION
    /\ line.action.kind = "Accelerate" => line.action.accel \in 0 .. MAX_ACCELERAION

C7_ThrustWithinBounds ==
    /\ (RacerDone /\ ~ZeroRange(racer)) => InThrustRange(racer, racer_line)
    /\ (AttackerDone /\ ~ZeroRange(attacker))
          => InThrustRange(attacker, attacker_line)

\* C7 witness: a thrust strictly inside the interval was returned
C7_WitnessPartialThrust ==
    /\ RacerDone
    /\ ~ZeroRange(racer)
    /\ racer_line.action.kind = "Accelerate"
    /\ racer_line.action.accel \in 1 .. MAX_ACCELERAION - 1

KeepsAccelAndRole(p, q) == q.accel = p.accel /\ q.role = p.role

\* C8: no step of main other than a pod's own navigate call changes its
\* accel, and no step changes its role; so update_pod keeps both, and
\* the accel navigate stored is the one the next navigate call finds.
C8_UpdateKeepsAccelAndRole ==
    [][/\ pc # "navigate_racer" => KeepsAccelAndRole(racer, racer')
       /\ pc # "navigate_attacker" => KeepsAccelAndRole(attacker, attacker')
       /\ racer'.role = racer.role
       /\ attacker'.role = attacker.role
       /\ pc = "update_opponents" =>
             \A i \in 1 .. OPPONENTS :
                 KeepsAccelAndRole(Opps[i], parameters'.opponents[i])]_vars

\* C8 witness: update_pod has just run on a racer whose accel navigate had
\* set to something other than the initial 100
C8_WitnessUpdatedAfterNavigate ==
    /\ pc = "update_attacker"
    /\ emitted >= 2
    /\ racer.accel \in 0 .. MAX_ACCELERAION - 1

WrapIdx(idx) == (idx + 1) % Len(Cps)

\* C9: with every pod's checkpoint index on the track, navigate and
\* prioritize_opponent read waypoints inside the track only, the next
\* waypoint being at (checkpoint_idx + 1) mod length; on a single waypoint
\* the Racer's target is that waypoint, and no call panics.
C9_IndicesStayOnTrack ==
    /\ pc # "panicked"
    /\ reads \subseteq ValidIdx(Cps)
    /\ RacerDone =>
          /\ reads = {racer.checkpoint_idx, WrapIdx(racer.checkpoint_idx)}
          /\ Len(Cps) = 1 =>
                /\ Normalized(Sub(At(Cps, 0), At(Cps, 0))) = Zero
                /\ RacerTarget(racer, parameters).nav_target = At(Cps, 0)
    /\ AttackerDone =>
          /\ MaxCheckpoint(parameters) \in reads
          /\ reads \subseteq {MaxCheckpoint(parameters),
                              WrapIdx(MaxCheckpoint(parameters))}

\* C9 witness: the Racer navigated on a single waypoint
C9_WitnessSingleWaypoint ==
    /\ RacerDone
    /\ Len(Cps) = 1
    /\ reads = {0}

\* the Racer's flight-time estimate to its biased target is below the
\* horizon
Early(self) ==
    FLt(FlightTime(self, Norm(Range(self, parameters))), FUTURE_TIME)

Lead(self) ==
    LeadTo(self, Range(self, parameters), Target(self, parameters).rel_vel)

\* C10: the Racer's navigate returns the waypoint at
\* (checkpoint_idx + 1) mod length when the flight time computed with the
\* stored accel is below 4 turns, with the thrust computed from that point,
\* and the lead point otherwise; the Attacker's always returns the lead
\* point.
C10_OverrideIsRacerOnly ==
    [][/\ (pc = "navigate_racer" /\ pc' = "navigate_attacker") =>
             /\ racer_line'.steer_vec =
                   IF Early(racer)
                   THEN At(Cps, WrapIdx(racer.checkpoint_idx))
                   ELSE Lead(racer)
             /\ racer'.accel = Thrust(racer, racer_line'.steer_vec)
       /\ (pc = "navigate_attacker" /\ pc' = "update_racer") =>
             /\ attacker_line'.steer_vec = Lead(attacker)
             /\ attacker'.accel = Thrust(attacker, attacker_line'.steer_vec)]_vars

\* C10 witness: the Racer was steered to the next waypoint in a call that
\* a stored accel of 100 would have left on the lead point
C10_WitnessStoredAccelOverrides ==
    /\ RacerDone
    /\ racer_line.steer_vec = At(Cps, WrapIdx(racer.checkpoint_idx))
    /\ racer_line.steer_vec # Lead(racer)
    /\ ~Early([racer EXCEPT !.accel = MAX_ACCELERAION])

====
